---- MODULE Spec2Model ----
(***************************************************************************)
(* Model of the EMA workbench run layer: perform_experiments, the three    *)
(* evaluator backends (sequential, multiprocessing pool, ipyparallel) and  *)
(* the design counts of the samplers that perform_experiments relies on.   *)
(***************************************************************************)
EXTENDS Integers, Sequences, FiniteSets, TLC

(***************************************************************************)
(* Bounds of the model.                                                    *)
(***************************************************************************)
MaxModels == 2
MaxN == 3
Workers == 2
MaxExperiments == 8
MaxCalls == 2
MaxSamples == 5

(***************************************************************************)
(* Keys of the SAMPLERS table (evaluators.py 33-48).  The salib samplers   *)
(* (sobol, morris, fast) are external and are left out; "bogus" stands for *)
(* any key that is missing from the table.                                 *)
(***************************************************************************)
LHS == "lhs"
MC == "mc"
FF == "ff"
PFF == "pff"
SAMPLERS == {LHS, MC, FF, PFF}

\* AbstractSampler.distributions: the distribution names a sampler knows.
distributions == {"uniform", "integer", "triangular", "triangle", "triang",
                  "pert", "bernoulli"}

(***************************************************************************)
(* Parameters.  name is a number so that sorting by name is defined.       *)
(***************************************************************************)
RealParam(nm, d, pf) ==
    [name |-> nm, kind |-> "real", dist |-> d, lower_bound |-> 0,
     upper_bound |-> 1, resolution |-> <<>>, categories |-> <<>>, pff |-> pf]

IntParam(nm, lo, hi, pf) ==
    [name |-> nm, kind |-> "int", dist |-> "integer", lower_bound |-> lo,
     upper_bound |-> hi, resolution |-> <<>>, categories |-> <<>>, pff |-> pf]

\* A categorical parameter is an integer parameter over the indices of its
\* categories, which it keeps in insertion order; its resolution is the
\* full set of its categories, as indices.
CatParam(nm, cats, pf) ==
    [name |-> nm, kind |-> "cat", dist |-> "integer", lower_bound |-> 0,
     upper_bound |-> Len(cats) - 1,
     resolution |-> [i \in 1..Len(cats) |-> i - 1], categories |-> cats,
     pff |-> pf]

\* The same parameter with other bounds, or with an explicit resolution.
Between(p, lo, hi) == [p EXCEPT !.lower_bound = lo, !.upper_bound = hi]

WithResolution(p, levels) == [p EXCEPT !.resolution = levels]

\* isinstance(param, IntegerParameter)
IsIntegerParameter(param) == param.kind \in {"int", "cat"}

(***************************************************************************)
(* Helpers on sequences and sets.                                          *)
(***************************************************************************)
Min(S) == CHOOSE x \in S : \A y \in S : x <= y

Max(S) == CHOOSE x \in S : \A y \in S : x >= y

\* A variant of sorted() that sorts in descending order.
RECURSIVE SetToDescendingSeq(_)
SetToDescendingSeq(S) ==
    IF S = {} THEN <<>> ELSE <<Max(S)>> \o SetToDescendingSeq(S \ {Max(S)})

RECURSIVE SetToSortedSeq(_)
SetToSortedSeq(S) ==
    IF S = {} THEN <<>> ELSE <<Min(S)>> \o SetToSortedSeq(S \ {Min(S)})

RECURSIVE Insert(_, _)
Insert(p, s) ==
    IF s = <<>> THEN <<p>>
    ELSE IF p.name < Head(s).name THEN <<p>> \o s
    ELSE <<Head(s)>> \o Insert(p, Tail(s))

\* sorted(parameters, key=operator.attrgetter('name')): a stable sort.
RECURSIVE SortByName(_)
SortByName(ps) ==
    IF ps = <<>> THEN <<>>
    ELSE Insert(ps[Len(ps)], SortByName(SubSeq(ps, 1, Len(ps) - 1)))

SelectPff(ps, flag) == SelectSeq(ps, LAMBDA p : p.pff = flag)

RECURSIVE Product(_)
Product(s) == IF s = <<>> THEN 1 ELSE Head(s) * Product(Tail(s))

(***************************************************************************)
(* Samplers (samplers.py).  A designs object is modelled by its declared   *)
(* count n, the number of designs its iteration yields (len), the          *)
(* parameters attached to it and, when generate_designs raised, the error. *)
(* sampled lists the names of the parameters that were sampled.            *)
(***************************************************************************)
Designs(e, cnt, length, ps, done) ==
    [err |-> e, n |-> cnt, len |-> length, parameters |-> ps, sampled |-> done]

\* np.round(x, 0) of the rational num/den (den > 0): round half to even.
RoundHalfEven(num, den) ==
    LET q == num \div den
        r == num % den
    IN  IF 2 * r < den THEN q
        ELSE IF 2 * r > den THEN q + 1
        ELSE IF q % 2 = 0 THEN q ELSE q + 1

\* np.linspace(lower, upper, size) as rationals <<numerator, denominator>>.
Linspace(lower, upper, size) ==
    LET den == IF size > 1 THEN size - 1 ELSE 1
    IN  [i \in 1..size |-> <<lower * den + (i - 1) * (upper - lower), den>>]

\* A variant that lays the grid over the bounds whatever the resolution.
FFSampleGrid(param, size) ==
    LET cats == Linspace(param.lower_bound, param.upper_bound, size)
    IN  IF IsIntegerParameter(param)
        THEN SetToSortedSeq({RoundHalfEven(cats[i][1], cats[i][2]) :
                                i \in DOMAIN cats})
        ELSE cats

\* FullFactorialSampler.generate_samples, for one parameter.
FFSample(param, size) ==
    IF param.resolution # <<>> THEN param.resolution
    ELSE LET cats == Linspace(param.lower_bound, param.upper_bound, size)
         IN  IF IsIntegerParameter(param)
             THEN SetToSortedSeq({RoundHalfEven(cats[i][1], cats[i][2]) :
                                     i \in DOMAIN cats})
             ELSE cats

\* FullFactorialSampler.determine_nr_of_designs.
determine_nr_of_designs(samples) ==
    Product([i \in DOMAIN samples |-> Len(samples[i])])

\* FullFactorialSampler.generate_designs: itertools.product of the samples
\* yields as many designs as determine_nr_of_designs counts.
FFGenerateDesigns(parameters, nr_samples) ==
    LET ps == SortByName(parameters)
        samples == [i \in DOMAIN ps |-> FFSample(ps[i], nr_samples)]
        n_designs == determine_nr_of_designs(samples)
    IN  Designs("none", n_designs,
                Product([i \in DOMAIN samples |-> Len(samples[i])]), ps,
                [i \in DOMAIN ps |-> ps[i].name])

\* Index of the first parameter whose distribution is unknown to
\* self.distributions[distribution] (LHSSampler.sample,
\* MonteCarloSampler.sample), 0 when there is none.
FirstUnknown(ps) ==
    IF \E i \in DOMAIN ps : ps[i].dist \notin distributions
    THEN Min({i \in DOMAIN ps : ps[i].dist \notin distributions})
    ELSE 0

\* AbstractSampler.generate_designs for LHSSampler and MonteCarloSampler:
\* every sample has nr_samples values, the designs are their zip (no design
\* at all when there is no parameter), the declared count is nr_samples.
AbstractGenerateDesigns(parameters, nr_samples) ==
    LET ps == SortByName(parameters)
        bad == FirstUnknown(ps)
    IN  IF bad # 0
        THEN Designs("KeyError", 0, 0, ps, [i \in 1..(bad - 1) |-> ps[i].name])
        ELSE Designs("none", nr_samples,
                     IF ps = <<>> THEN 0 ELSE nr_samples, ps,
                     [i \in DOMAIN ps |-> ps[i].name])

\* PartialFactorialSampler.generate_designs (sampling = 'LHS').
PFFGenerateDesigns(parameters, nr_samples) ==
    LET ff_designs == FFGenerateDesigns(SelectPff(parameters, TRUE), nr_samples)
        other_designs ==
            AbstractGenerateDesigns(SelectPff(parameters, FALSE), nr_samples)
    IN  IF other_designs.err # "none"
        THEN Designs(other_designs.err, 0, 0, parameters,
                     ff_designs.sampled \o other_designs.sampled)
        ELSE Designs("none", other_designs.n * ff_designs.n,
                     ff_designs.len * other_designs.len, parameters,
                     ff_designs.sampled \o other_designs.sampled)

\* sampler.generate_designs for the sampler class SAMPLERS[key].
generate_designs(key, parameters, nr_samples) ==
    IF key = FF THEN FFGenerateDesigns(parameters, nr_samples)
    ELSE IF key = PFF THEN PFFGenerateDesigns(parameters, nr_samples)
    ELSE AbstractGenerateDesigns(parameters, nr_samples)

(***************************************************************************)
(* State.                                                                  *)
(*  backend .. levers   the arguments of the run                           *)
(*  scope               the evaluator's life cycle (its with-scope)        *)
(*  pe                  progress of perform_experiments                    *)
(*  exc                 the exception propagating to the caller            *)
(*  res                 the resources the evaluator holds                  *)
(*  nr_of_exp, produced the expected total, the experiments generated      *)
(*  cb                  the DefaultCallback (result aggregator)            *)
(*  ev                  progress of evaluate_experiments                   *)
(*  sampled             the axes on which a sampler was run                *)
(*  step .. reiterated  one call of a sampler, followed step by step       *)
(*  searchover .. row   one call of evaluate_all                            *)
(***************************************************************************)
VARIABLES backend, models, scenarios, policies, uncertainty_sampling,
          levers_sampling, uncertainties, levers,
          scope, pe, exc, res, nr_of_exp, produced, cb, ev, sampled,
          step, sampler, pff_sampling, samples, designs, iterated,
          reiterated, searchover, jobs, experiments, ea_step, row

inputs == <<backend, models, scenarios, policies, uncertainty_sampling,
            levers_sampling, uncertainties, levers>>

\* The state of one call of a sampler's generate_designs: how far it has
\* come, the sampler object and the sampling type its constructor was
\* given, the samples per parameter, the designs object returned, the
\* designs that iterating the object has yielded and the designs that
\* iterating it a second time has yielded.
sampling == <<step, sampler, pff_sampling, samples, designs, iterated,
              reiterated>>

vars == <<backend, models, scenarios, policies, uncertainty_sampling,
          levers_sampling, uncertainties, levers,
          scope, pe, exc, res, nr_of_exp, produced, cb, ev, sampled,
          step, sampler, pff_sampling, samples, designs, iterated,
          reiterated, searchover, jobs, experiments, ea_step, row>>

\* The state of one call of evaluate_all: the evaluator's searchover, the
\* jobs, the experiments that perform_experiments returned, how far the
\* call has come, and the index of the loop that maps the cases back.
optimizing == <<searchover, jobs, experiments, ea_step, row>>

\* evaluate_all is not called.
NotOptimizing ==
    /\ searchover = "levers"
    /\ jobs = <<>>
    /\ experiments = <<>>
    /\ ea_step = "notcalled"
    /\ row = 0

NoDesigns == [class |-> "None"]

NoSampler == [class |-> "None"]

\* No sampler is followed step by step.
NotSampling ==
    /\ step = "start"
    /\ sampler = NoSampler
    /\ pff_sampling = "LHS"
    /\ samples = <<>>
    /\ designs = NoDesigns
    /\ iterated = <<>>
    /\ reiterated = <<>>

Backends == {"default", "sequential", "pool", "ipyparallel"}

\* models: one AbstractModel instance, or a collection of n of them.
ModelArgs ==
    {[collection |-> FALSE, n |-> 1]} \cup
    {[collection |-> TRUE, n |-> k] : k \in 1..MaxModels}

\* scenarios / policies: an int, or a collection of that many objects.
AxisArgs == {[kind |-> k, n |-> m] : k \in {"int", "coll"}, m \in 0..MaxN}

\* The sampling method and the parameters it is run on, for a sampled axis.
UncertaintyProfiles ==
    { <<LHS, <<RealParam(1, "uniform", FALSE)>> >>,
      <<LHS, <<>> >>,
      <<MC, <<RealParam(1, "uniform", FALSE), RealParam(2, "gauss", FALSE)>> >>,
      <<FF, <<RealParam(2, "uniform", FALSE), IntParam(1, 1, 2, FALSE)>> >>,
      <<PFF, <<RealParam(2, "uniform", FALSE), IntParam(1, 1, 2, TRUE)>> >>,
      <<"bogus", <<RealParam(1, "uniform", FALSE)>> >> }

LeverProfiles ==
    { <<LHS, <<IntParam(1, 0, 1, FALSE)>> >>,
      <<FF, <<IntParam(1, 0, 1, FALSE)>> >>,
      <<MC, <<RealParam(1, "gauss", FALSE)>> >>,
      <<"bogus", <<>> >> }

Sampled(arg) == arg.kind = "int" /\ arg.n > 0

NoResources ==
    [pool |-> "none", reader |-> "none", loggers |-> FALSE,
     initialized |-> 0, watcher |-> "none", cleaned |-> 0, pool_log |-> <<>>]

NoCallback == [created |-> FALSE, size |-> 0, i |-> 0, rows |-> {},
               calls |-> <<>>]

\* cleanup counts the calls of runner.cleanup(), restored tells whether
\* os.chdir(cwd) has been executed; arrived lists the finished experiments
\* in the order in which they finished, yielded those whose entry the
\* loop over the results has taken, in that order, and active the
\* experiments whose callback is executing.
NoEvaluation ==
    [called |-> 0, next |-> 0, inflight |-> {}, ran |-> {}, failed |-> {},
     aborted |-> {}, cleanup |-> 0, restored |-> FALSE, arrived |-> <<>>,
     yielded |-> <<>>, active |-> {}]

(***************************************************************************)
(* Entry to the evaluator's scope.                                         *)
(***************************************************************************)
\* BaseEvaluator.__enter__ (inherited by SequentialEvaluator).
EnterBase ==
    /\ backend = "sequential"
    /\ scope = "Idle"
    /\ scope' = "Active"
    /\ UNCHANGED <<inputs, optimizing, sampling, pe, exc, res, nr_of_exp, produced, cb, ev, sampled>>

\* MultiprocessingPoolEvaluator.__enter__: the log queue reader is started,
\* then the pool is created; multiprocessing.Pool may raise (for instance
\* ValueError for n_processes = 0), and then nothing after it runs.
PoolEnter(r, created) ==
    IF created
    THEN [r EXCEPT !.reader = "started", !.pool = "running",
                   !.pool_log = Append(@, "Pool")]
    ELSE [r EXCEPT !.reader = "started"]

EnterPool ==
    /\ backend = "pool"
    /\ scope = "Idle"
    /\ \E created \in BOOLEAN :
          /\ res' = PoolEnter(res, created)
          /\ scope' = IF created THEN "Active" ELSE "EnterFailed"
          /\ exc' = IF created THEN "none" ELSE "ValueError"
    /\ UNCHANGED <<inputs, optimizing, sampling, pe, nr_of_exp, produced, cb, ev, sampled>>

\* IpyparallelEvaluator.__enter__: set_engine_logger on all engines,
\* initialize_engines, start_logwatcher, in this order; each call into the
\* cluster may raise, and then nothing after it runs.
IpyEnterSteps == <<"set_engine_logger", "initialize_engines", "start_logwatcher">>

\* A variant that leaves the initialization of the engines out.
IpyEnterNoInit(r, done) ==
    [r EXCEPT !.loggers = (done >= 1),
              !.watcher = IF done >= 3 THEN "running" ELSE @]

IpyEnter(r, done) ==
    [r EXCEPT !.loggers = (done >= 1),
              !.initialized = IF done >= 2 THEN @ + 1 ELSE @,
              !.watcher = IF done >= 3 THEN "running" ELSE @]

EnterIpyparallel ==
    /\ backend = "ipyparallel"
    /\ scope = "Idle"
    /\ \E done \in 0..Len(IpyEnterSteps) :
          /\ res' = IpyEnter(res, done)
          /\ scope' = IF done = Len(IpyEnterSteps) THEN "Active" ELSE "EnterFailed"
          /\ exc' = IF done = Len(IpyEnterSteps) THEN "none" ELSE "EngineError"
    /\ UNCHANGED <<inputs, optimizing, sampling, pe, nr_of_exp, produced, cb, ev, sampled>>

(***************************************************************************)
(* Exit from the evaluator's scope.  The scope's body is the call of       *)
(* perform_experiments; exc is the exception it raised, if any.            *)
(***************************************************************************)
ScopeBodyDone == scope = "Active" /\ pe \in {"returned", "raised"}

\* Experiments handed to evaluate_experiments that have not been delivered.
Outstanding ==
    IF ev.called = 0 THEN {}
    ELSE ev.inflight \cup {id \in 0..(produced - 1) : id >= ev.next}

\* A variant of __exit__ that returns True.
ExitValueTrue(b, raised) == "True"

\* The value that __exit__ returns: BaseEvaluator and
\* MultiprocessingPoolEvaluator return False on an exception and nothing
\* otherwise, IpyparallelEvaluator returns nothing.
ExitValue(b, raised) ==
    IF b = "ipyparallel" THEN "None"
    ELSE IF raised THEN "False" ELSE "None"

\* The with statement: a true value of __exit__ suppresses the exception
\* that left the scope's body, any other value lets it propagate.
AfterExit(value, e) == IF value = "True" THEN "none" ELSE e

\* BaseEvaluator.__exit__: returns False on an exception, None otherwise.
ExitBase ==
    /\ backend = "sequential"
    /\ ScopeBodyDone
    /\ scope' = "Closed"
    /\ exc' = AfterExit(ExitValue(backend, exc # "none"), exc)
    /\ UNCHANGED <<inputs, optimizing, sampling, pe, res, nr_of_exp, produced, cb, ev, sampled>>

\* A variant that closes the pool whether or not an exception was raised.
PoolExitAlwaysClose(r, raised) ==
    [r EXCEPT !.pool = "closed", !.pool_log = Append(@, "close")]

\* MultiprocessingPoolEvaluator.__exit__, what it does to the pool first:
\* terminate() when an exception left the scope, close() otherwise.
PoolExit(r, raised) ==
    IF raised
    THEN [r EXCEPT !.pool = "terminated", !.pool_log = Append(@, "terminate")]
    ELSE [r EXCEPT !.pool = "closed", !.pool_log = Append(@, "close")]

ExitPool ==
    /\ backend = "pool"
    /\ ScopeBodyDone
    /\ res' = PoolExit(res, exc # "none")
    /\ IF exc # "none"
       THEN /\ scope' = "Closed"
            /\ ev' = [ev EXCEPT !.aborted = Outstanding, !.inflight = {}]
       ELSE /\ scope' = "Draining"
            /\ ev' = ev
    /\ exc' = AfterExit(ExitValue(backend, exc # "none"), exc)
    /\ UNCHANGED <<inputs, optimizing, sampling, pe, nr_of_exp, produced, cb, sampled>>

\* self._pool.join(): returns once no job is outstanding.
ExitPoolJoin ==
    /\ backend = "pool"
    /\ scope = "Draining"
    /\ Outstanding = {}
    /\ res' = [res EXCEPT !.pool = "joined", !.pool_log = Append(@, "join")]
    /\ scope' = "Closed"
    /\ UNCHANGED <<inputs, optimizing, sampling, pe, exc, nr_of_exp, produced, cb, ev, sampled>>

\* IpyparallelEvaluator.__exit__: logwatcher.stop(), cleanup(client).
IpyExit(r) == [r EXCEPT !.watcher = "stopped", !.cleaned = @ + 1]

ExitIpyparallel ==
    /\ backend = "ipyparallel"
    /\ ScopeBodyDone
    /\ res' = IpyExit(res)
    /\ scope' = "Closed"
    /\ exc' = AfterExit(ExitValue(backend, exc # "none"), exc)
    /\ UNCHANGED <<inputs, optimizing, sampling, pe, nr_of_exp, produced, cb, ev, sampled>>

(***************************************************************************)
(* perform_experiments, up to the call of evaluate_experiments.            *)
(***************************************************************************)
Axis(e, cnt, length, ran) == [err |-> e, n |-> cnt, len |-> length, sampled |-> ran]

\* A variant that compares with the number 0 only.
OnlyIntegerZero(sc, po) ==
    sc = [kind |-> "int", n |-> 0] /\ po = [kind |-> "int", n |-> 0]

\* "if not scenarios and not policies": 0 and the empty collection are falsy.
NoExperimentsPossible(sc, po) == sc.n = 0 /\ po.n = 0

\* The scenarios branch: one implicit scenario, sample_uncertainties with
\* SAMPLERS[uncertainty_sampling](), or the given collection.
ScenarioAxis(sc, key, params) ==
    IF sc.n = 0 THEN Axis("none", 1, 1, FALSE)
    ELSE IF sc.kind = "int"
         THEN IF key \notin SAMPLERS THEN Axis("KeyError", 0, 0, FALSE)
              ELSE LET d == generate_designs(key, params, sc.n)
                   IN  Axis(d.err, d.n, d.len, TRUE)
         ELSE Axis("none", sc.n, sc.n, FALSE)

\* The policies branch: one implicit policy, sample_levers with
\* SAMPLERS[levers_sampling](), or the given collection.
PolicyAxis(po, key, params) ==
    IF po.n = 0 THEN Axis("none", 1, 1, FALSE)
    ELSE IF po.kind = "int"
         THEN IF key \notin SAMPLERS THEN Axis("KeyError", 0, 0, FALSE)
              ELSE LET d == generate_designs(key, params, po.n)
                   IN  Axis(d.err, d.n, d.len, TRUE)
         ELSE Axis("none", po.n, po.n, FALSE)

\* A variant that counts one model whatever models is.
OneModel(m) == 1

\* len(models), 1 when models is a single model (TypeError).
n_models(m) == IF m.collection THEN m.n ELSE 1

\* nr_of_exp = n_models * n_scenarios * n_policies
NrOfExp(nm, n_scenarios, n_policies) == nm * n_scenarios * n_policies

\* experiment_generator(scenarios, models, policies): the cross product of
\* the three iterables, with ids 0, 1, 2, ... in generation order.
experiment_generator(n_sc, nm, n_po) == n_sc * nm * n_po

\* DefaultCallback(uncertainties, levers, outcomes, nr_of_exp): a table of
\* nr_of_exp rows, none written, and a counter i = 0.
DefaultCallback(size) ==
    [created |-> TRUE, size |-> size, i |-> 0, rows |-> {}, calls |-> <<>>]

\* The runs of the model: those that expect at most MaxExperiments.
WithinBounds ==
    LET sc == ScenarioAxis(scenarios, uncertainty_sampling, uncertainties)
        po == PolicyAxis(policies, levers_sampling, levers)
    IN  (sc.err = "none" /\ po.err = "none")
            => NrOfExp(n_models(models), sc.n, po.n) <= MaxExperiments

PerformBegin ==
    /\ pe = "notcalled"
    /\ scope \in {"Active", "NoScope"}
    /\ LET sc == ScenarioAxis(scenarios, uncertainty_sampling, uncertainties)
           po == PolicyAxis(policies, levers_sampling, levers)
           ran_sc == IF sc.sampled THEN <<"uncertainties">> ELSE <<>>
           ran_po == IF po.sampled THEN <<"levers">> ELSE <<>>
           total == NrOfExp(n_models(models), sc.n, po.n)
       IN  IF NoExperimentsPossible(scenarios, policies)
           THEN /\ pe' = "raised" /\ exc' = "EMAError"
                /\ UNCHANGED <<nr_of_exp, produced, cb, ev, sampled>>
           ELSE IF sc.err # "none"
           THEN /\ pe' = "raised" /\ exc' = sc.err
                /\ sampled' = ran_sc
                /\ UNCHANGED <<nr_of_exp, produced, cb, ev>>
           ELSE IF po.err # "none"
           THEN /\ pe' = "raised" /\ exc' = po.err
                /\ sampled' = ran_sc \o ran_po
                /\ UNCHANGED <<nr_of_exp, produced, cb, ev>>
           ELSE /\ pe' = "evaluating" /\ exc' = "none"
                /\ sampled' = ran_sc \o ran_po
                /\ nr_of_exp' = total
                /\ cb' = DefaultCallback(total)
                /\ produced' = experiment_generator(sc.len, n_models(models), po.len)
                /\ ev' = [ev EXCEPT !.called = @ + 1]
    /\ UNCHANGED <<inputs, optimizing, sampling, scope, res>>

(***************************************************************************)
(* The callback.  A call validates the outcomes, writes the row of the     *)
(* experiment's id (a row that is already written is a fatal error) and    *)
(* increments the counter.  calls records every invocation, by id.         *)
(***************************************************************************)
CallbackError(c, id, valid) ==
    IF ~valid THEN "OutcomeError"
    ELSE IF id \in c.rows THEN "DuplicateError"
    ELSE "none"

\* calls counts the invocations per experiment id.
Invoked(calls, id) ==
    IF id \in DOMAIN calls THEN [calls EXCEPT ![id] = @ + 1]
    ELSE calls @@ (id :> 1)

CallbackCall(c, id, valid) ==
    IF CallbackError(c, id, valid) # "none"
    THEN [c EXCEPT !.calls = Invoked(@, id)]
    ELSE [c EXCEPT !.calls = Invoked(@, id), !.rows = @ \cup {id}, !.i = @ + 1]

\* Number of callback invocations for experiment id.
Calls(id) == IF id \in DOMAIN cb.calls THEN cb.calls[id] ELSE 0

(***************************************************************************)
(* SequentialEvaluator.evaluate_experiments: one experiment at a time, the *)
(* callback inline; an exception of run_experiment or of the callback      *)
(* leaves the loop and the method.                                         *)
(***************************************************************************)
Sequential == backend \in {"default", "sequential"}

\* A variant that catches the exception of run_experiment and goes on.
RunSwallows(ok) == FALSE

\* Whether a failed run_experiment ends evaluate_experiments.
RunRaises(ok) == ~ok

SeqRun ==
    /\ Sequential
    /\ pe = "evaluating"
    /\ ev.inflight = {}
    /\ ev.next < produced
    /\ \E ok \in BOOLEAN :
          IF RunRaises(ok)
          THEN /\ ev' = [ev EXCEPT !.next = @ + 1, !.ran = @ \cup {ev.next},
                                   !.failed = @ \cup {ev.next}]
               /\ pe' = "raised"
               /\ exc' = "ExperimentError"
          ELSE /\ ev' = [ev EXCEPT !.next = @ + 1, !.ran = @ \cup {ev.next},
                                   !.inflight = {ev.next},
                                   !.failed = IF ok THEN @ ELSE @ \cup {ev.next}]
               /\ UNCHANGED <<pe, exc>>
    /\ UNCHANGED <<inputs, optimizing, sampling, scope, res, nr_of_exp, produced, cb, sampled>>

SeqCallback ==
    /\ Sequential
    /\ pe = "evaluating"
    /\ \E id \in ev.inflight, valid \in BOOLEAN :
          /\ cb' = CallbackCall(cb, id, valid)
          /\ ev' = [ev EXCEPT !.inflight = {}]
          /\ IF CallbackError(cb, id, valid) # "none"
             THEN pe' = "raised" /\ exc' = CallbackError(cb, id, valid)
             ELSE UNCHANGED <<pe, exc>>
    /\ UNCHANGED <<inputs, optimizing, sampling, scope, res, nr_of_exp, produced, sampled>>

\* After the loop: runner.cleanup() and os.chdir(cwd).
SeqFinish ==
    /\ Sequential
    /\ pe = "evaluating"
    /\ ev.inflight = {}
    /\ ev.next = produced
    /\ ev' = [ev EXCEPT !.cleanup = @ + 1, !.restored = TRUE]
    /\ pe' = "evaluated"
    /\ UNCHANGED <<inputs, optimizing, sampling, scope, exc, res, nr_of_exp, produced, cb, sampled>>

(***************************************************************************)
(* MultiprocessingPoolEvaluator.evaluate_experiments: add_tasks hands the  *)
(* experiments to the pool's workers; results are passed to the callback   *)
(* on the calling thread in the order in which they finish; a failed       *)
(* experiment ends the call with its error.                                *)
(***************************************************************************)
PoolStart ==
    /\ backend = "pool"
    /\ pe = "evaluating"
    /\ Cardinality(ev.inflight) < Workers
    /\ ev.next < produced
    /\ ev' = [ev EXCEPT !.next = @ + 1, !.ran = @ \cup {ev.next},
                        !.inflight = @ \cup {ev.next}]
    /\ UNCHANGED <<inputs, optimizing, sampling, scope, pe, exc, res, nr_of_exp, produced, cb, sampled>>

\* add_tasks, for one finished job: raise on a failed one, else callback.
Delivered(ok) == ok

PoolComplete ==
    /\ backend = "pool"
    /\ pe = "evaluating"
    /\ \E id \in ev.inflight, ok \in BOOLEAN, valid \in BOOLEAN :
          IF Delivered(ok)
          THEN /\ cb' = CallbackCall(cb, id, valid)
               /\ ev' = [ev EXCEPT !.inflight = @ \ {id}]
               /\ IF CallbackError(cb, id, valid) # "none"
                  THEN pe' = "raised" /\ exc' = CallbackError(cb, id, valid)
                  ELSE UNCHANGED <<pe, exc>>
          ELSE /\ ev' = [ev EXCEPT !.inflight = @ \ {id}, !.failed = @ \cup {id}]
               /\ pe' = "raised"
               /\ exc' = "ExperimentError"
               /\ cb' = cb
    /\ UNCHANGED <<inputs, optimizing, sampling, scope, res, nr_of_exp, produced, sampled>>

PoolFinish ==
    /\ backend = "pool"
    /\ pe = "evaluating"
    /\ ev.inflight = {}
    /\ ev.next = produced
    /\ pe' = "evaluated"
    /\ UNCHANGED <<inputs, optimizing, sampling, scope, exc, res, nr_of_exp, produced, cb, ev, sampled>>

(***************************************************************************)
(* IpyparallelEvaluator.evaluate_experiments: lb_view.map(_run_experiment, *)
(* ex_gen, ordered=False, block=False) queues every experiment; the        *)
(* engines take them in turn; iterating the results yields each entry as   *)
(* it arrives and raises the remote error of a failed one.                 *)
(***************************************************************************)
IpyStart ==
    /\ backend = "ipyparallel"
    /\ pe = "evaluating"
    /\ Cardinality(ev.inflight) < Workers
    /\ ev.next < produced
    /\ ev' = [ev EXCEPT !.next = @ + 1, !.ran = @ \cup {ev.next},
                        !.inflight = @ \cup {ev.next}]
    /\ UNCHANGED <<inputs, optimizing, sampling, scope, pe, exc, res, nr_of_exp, produced, cb, sampled>>

\* "for entry in results: callback(*entry)"
Collected(ok) == ok

\* A variant that stops iterating as soon as no result is pending.
NothingPending(e, n) == e.inflight = {}

\* The iteration over the results ends when every entry has been yielded.
Exhausted(e, n) == e.inflight = {} /\ e.next = n

IpyCollect ==
    /\ backend = "ipyparallel"
    /\ pe = "evaluating"
    /\ \E id \in ev.inflight, ok \in BOOLEAN, valid \in BOOLEAN :
          IF Collected(ok)
          THEN /\ cb' = CallbackCall(cb, id, valid)
               /\ ev' = [ev EXCEPT !.inflight = @ \ {id}]
               /\ IF CallbackError(cb, id, valid) # "none"
                  THEN pe' = "raised" /\ exc' = CallbackError(cb, id, valid)
                  ELSE UNCHANGED <<pe, exc>>
          ELSE /\ ev' = [ev EXCEPT !.inflight = @ \ {id}, !.failed = @ \cup {id}]
               /\ pe' = "raised"
               /\ exc' = "ExperimentError"
               /\ cb' = cb
    /\ UNCHANGED <<inputs, optimizing, sampling, scope, res, nr_of_exp, produced, sampled>>

IpyFinish ==
    /\ backend = "ipyparallel"
    /\ pe = "evaluating"
    /\ Exhausted(ev, produced)
    /\ pe' = "evaluated"
    /\ UNCHANGED <<inputs, optimizing, sampling, scope, exc, res, nr_of_exp, produced, cb, ev, sampled>>

(***************************************************************************)
(* perform_experiments, after evaluate_experiments has returned.           *)
(***************************************************************************)
\* Variants of the completion check: one that only notices too many
\* callbacks, one that never raises.
MoreThanExpected(i, total) == i > total

NeverIncomplete(i, total) == FALSE

\* "if callback.i != nr_of_exp: raise EMAError(...)"
NotAllCompleted(i, total) == i # total

\* The experiment ids named by the error that ends a run.  The EMAError
\* of the completion check carries the expected count, the actual count
\* and the type of the callback.
CountMismatchIds == {}

\* The error of a failed experiment comes from the model, which is handed
\* the merged variable assignment of the experiment and not its id.
RemoteErrorIds(id) == {}

\* evaluate_experiments and perform_experiments have no except clause: the
\* error of a failed experiment reaches the caller as the worker raised it.
ErrorIds(e, failed) ==
    IF e = "ExperimentError"
    THEN UNION {RemoteErrorIds(id) : id \in failed}
    ELSE CountMismatchIds

PerformFinish ==
    /\ pe = "evaluated"
    /\ IF NotAllCompleted(cb.i, nr_of_exp)
       THEN pe' = "raised" /\ exc' = "EMAError"
       ELSE pe' = "returned" /\ exc' = "none"
    /\ UNCHANGED <<inputs, optimizing, sampling, scope, res, nr_of_exp, produced, cb, ev, sampled>>

\* An axis that is not sampled leaves the sampling argument at its default
\* and the parameters unread.
Init ==
    /\ NotOptimizing
    /\ backend \in Backends
    /\ models \in ModelArgs
    /\ scenarios \in AxisArgs
    /\ policies \in AxisArgs
    /\ IF Sampled(scenarios)
       THEN \E p \in UncertaintyProfiles :
               uncertainty_sampling = p[1] /\ uncertainties = p[2]
       ELSE uncertainty_sampling = LHS /\ uncertainties = <<>>
    /\ IF Sampled(policies)
       THEN \E p \in LeverProfiles :
               levers_sampling = p[1] /\ levers = p[2]
       ELSE levers_sampling = LHS /\ levers = <<>>
    /\ WithinBounds
    /\ scope = IF backend = "default" THEN "NoScope" ELSE "Idle"
    /\ pe = "notcalled"
    /\ exc = "none"
    /\ res = NoResources
    /\ nr_of_exp = 0
    /\ produced = 0
    /\ cb = NoCallback
    /\ ev = NoEvaluation
    /\ sampled = <<>>
    /\ NotSampling

Next ==
    \/ EnterBase
    \/ EnterPool
    \/ EnterIpyparallel
    \/ PerformBegin
    \/ SeqRun
    \/ SeqCallback
    \/ SeqFinish
    \/ PoolStart
    \/ PoolComplete
    \/ PoolFinish
    \/ IpyStart
    \/ IpyCollect
    \/ IpyFinish
    \/ PerformFinish
    \/ ExitBase
    \/ ExitPool
    \/ ExitPoolJoin
    \/ ExitIpyparallel

Spec == Init /\ [][Next]_vars

(***************************************************************************)
(* A second specification for the result aggregator: evaluate_experiments  *)
(* of an arbitrary backend (BaseEvaluator.evaluate_experiments is          *)
(* abstract) calls the callback any number of times with any ids, in any   *)
(* order, and returns; perform_experiments then checks the count.          *)
(***************************************************************************)
InitAgg ==
    /\ NotOptimizing
    /\ backend = "default"
    /\ models = [collection |-> FALSE, n |-> 1]
    /\ scenarios \in {a \in AxisArgs : a.kind = "coll" /\ a.n > 0}
    /\ policies \in {a \in AxisArgs : a.kind = "coll" /\ a.n > 0}
    /\ uncertainty_sampling = LHS /\ uncertainties = <<>>
    /\ levers_sampling = LHS /\ levers = <<>>
    /\ scope = "NoScope"
    /\ pe = "evaluating"
    /\ exc = "none"
    /\ res = NoResources
    /\ nr_of_exp = NrOfExp(n_models(models), scenarios.n, policies.n)
    /\ produced = nr_of_exp
    /\ cb = DefaultCallback(nr_of_exp)
    /\ ev = [NoEvaluation EXCEPT !.called = 1]
    /\ sampled = <<>>
    /\ NotSampling

AnyCallback ==
    /\ pe = "evaluating"
    /\ \E id \in 0..(nr_of_exp - 1), valid \in BOOLEAN :
          /\ cb' = CallbackCall(cb, id, valid)
          /\ IF CallbackError(cb, id, valid) # "none"
             THEN pe' = "raised" /\ exc' = CallbackError(cb, id, valid)
             ELSE UNCHANGED <<pe, exc>>
    /\ UNCHANGED <<inputs, optimizing, sampling, scope, res, nr_of_exp, produced, ev, sampled>>

AnyReturn ==
    /\ pe = "evaluating"
    /\ pe' = "evaluated"
    /\ UNCHANGED <<inputs, optimizing, sampling, scope, exc, res, nr_of_exp, produced, cb, ev, sampled>>

NextAgg ==
    \/ AnyCallback
    \/ AnyReturn
    \/ PerformFinish

SpecAgg == InitAgg /\ [][NextAgg]_vars

(***************************************************************************)
(* A third specification, for the loop that feeds the callback.  The       *)
(* steps of evaluate_experiments are taken apart: an experiment starts on  *)
(* a worker, it finishes, the loop of the calling thread takes its entry   *)
(* and calls the callback, the callback returns.  The scope is entered     *)
(* once and evaluate_experiments may be called again after it returned.    *)
(* For the process-pool backend the loop is that of add_tasks.             *)
(***************************************************************************)
Range(s) == {s[i] : i \in DOMAIN s}

InitLoop ==
    /\ NotOptimizing
    /\ backend \in {"sequential", "pool", "ipyparallel"}
    /\ models = [collection |-> FALSE, n |-> 1]
    /\ scenarios \in {a \in AxisArgs : a.kind = "coll" /\ a.n > 0}
    /\ policies = [kind |-> "int", n |-> 0]
    /\ uncertainty_sampling = LHS /\ uncertainties = <<>>
    /\ levers_sampling = LHS /\ levers = <<>>
    /\ scope = "Idle"
    /\ pe = "notcalled"
    /\ exc = "none"
    /\ res = NoResources
    /\ nr_of_exp = 0
    /\ produced = 0
    /\ cb = NoCallback
    /\ ev = NoEvaluation
    /\ sampled = <<>>
    /\ NotSampling

\* ex_gen is consumed when the work is handed over: lb_view.map(...,
\* block=False) queues every experiment and returns at once, while the
\* sequential loop draws one experiment per iteration.
Submitted(b, total) == IF b = "sequential" THEN 0 ELSE total

\* perform_experiments, called in the active scope, up to the first step of
\* evaluate_experiments.
EvaluateExperiments ==
    /\ scope = "Active"
    /\ pe \in {"notcalled", "returned"}
    /\ ev.called < MaxCalls
    /\ LET total == NrOfExp(n_models(models), scenarios.n, 1)
       IN  /\ nr_of_exp' = total
           /\ produced' = experiment_generator(scenarios.n, n_models(models), 1)
           /\ cb' = DefaultCallback(total)
           /\ ev' = [NoEvaluation EXCEPT !.called = ev.called + 1,
                                         !.next = Submitted(backend, total)]
    /\ pe' = "evaluating"
    /\ exc' = "none"
    /\ UNCHANGED <<inputs, optimizing, sampling, scope, res, sampled>>

\* The experiments that wait for a worker.
Queued(e) == {id \in 0..(e.next - 1) : id \notin e.ran}

\* The finished experiments whose entry the loop has not taken.
Pending(e) == SelectSeq(e.arrived, LAMBDA id : id \notin Range(e.yielded))

\* A variant in which the next experiment is started at once.
StartsAtOnce(e) == TRUE

\* "for experiment in ex_gen: outcomes = runner.run_experiment(experiment);
\* callback(experiment, outcomes)": an iteration of the loop is over when
\* its experiment has run and its callback has returned.
IterationOver(e) ==
    /\ e.inflight = {}
    /\ Pending(e) = <<>>
    /\ e.active = {}

\* The sequential runner starts the next experiment of the generator when
\* the previous iteration is over; an engine or pool worker that is free
\* takes the first experiment of the queue.
WorkerStart ==
    /\ pe = "evaluating"
    /\ IF backend = "sequential"
       THEN /\ ev.next < produced
            /\ IterationOver(ev)
            /\ ev' = [ev EXCEPT !.next = @ + 1, !.ran = @ \cup {ev.next},
                                !.inflight = {ev.next}]
       ELSE /\ Queued(ev) # {}
            /\ Cardinality(ev.inflight) < Workers
            /\ ev' = [ev EXCEPT !.ran = @ \cup {Min(Queued(ev))},
                                !.inflight = @ \cup {Min(Queued(ev))}]
    /\ UNCHANGED <<inputs, optimizing, sampling, scope, pe, exc, res, nr_of_exp, produced, cb, sampled>>

\* An experiment finishes, with a result or with an error.  The sequential
\* runner raises the error in the calling thread; a worker's error is kept
\* with the entry.
WorkerDone ==
    /\ pe = "evaluating"
    /\ \E id \in ev.inflight, ok \in BOOLEAN :
          /\ ev' = [ev EXCEPT !.inflight = @ \ {id},
                              !.arrived = Append(@, id),
                              !.failed = IF ok THEN @ ELSE @ \cup {id}]
          /\ IF backend = "sequential" /\ RunRaises(ok)
             THEN pe' = "raised" /\ exc' = "ExperimentError"
             ELSE UNCHANGED <<pe, exc>>
    /\ UNCHANGED <<inputs, optimizing, sampling, scope, res, nr_of_exp, produced, cb, sampled>>

\* A variant of the iteration with ordered=True: the entries come in the
\* order of submission.
InSubmissionOrder(e) == {id \in Range(e.arrived) : id = Len(e.yielded)}

\* ordered=False: the results yield the entries in the order of arrival.
InArrivalOrder(e) == IF Pending(e) = <<>> THEN {} ELSE {Head(Pending(e))}

\* A variant in which an entry is handed to the callback while another
\* callback is still executing.
NeverBusy(e) == TRUE

\* "for entry in results: callback(*entry)": the loop takes the next entry
\* only when the body of the previous iteration has returned.
BodyReturned(e) == e.active = {}

\* The loop takes an entry: the error of a failed experiment is raised,
\* otherwise the callback is called.
TakeEntry ==
    /\ pe = "evaluating"
    /\ BodyReturned(ev)
    /\ \E id \in InArrivalOrder(ev) :
          IF id \in ev.failed
          THEN /\ ev' = [ev EXCEPT !.yielded = Append(@, id)]
               /\ pe' = "raised"
               /\ exc' = "ExperimentError"
          ELSE /\ ev' = [ev EXCEPT !.yielded = Append(@, id),
                                   !.active = @ \cup {id}]
               /\ UNCHANGED <<pe, exc>>
    /\ UNCHANGED <<inputs, optimizing, sampling, scope, res, nr_of_exp, produced, cb, sampled>>

\* The callback returns or raises.
CallbackReturn ==
    /\ pe = "evaluating"
    /\ \E id \in ev.active, valid \in BOOLEAN :
          /\ cb' = CallbackCall(cb, id, valid)
          /\ ev' = [ev EXCEPT !.active = @ \ {id}]
          /\ IF CallbackError(cb, id, valid) # "none"
             THEN pe' = "raised" /\ exc' = CallbackError(cb, id, valid)
             ELSE UNCHANGED <<pe, exc>>
    /\ UNCHANGED <<inputs, optimizing, sampling, scope, res, nr_of_exp, produced, sampled>>

\* The loop ends when every entry has been taken; the sequential evaluator
\* then calls runner.cleanup() and os.chdir(cwd).
LoopEnd ==
    /\ pe = "evaluating"
    /\ ev.next = produced
    /\ ev.inflight = {}
    /\ ev.active = {}
    /\ Len(ev.yielded) = produced
    /\ ev' = IF backend = "sequential"
             THEN [ev EXCEPT !.cleanup = @ + 1, !.restored = TRUE]
             ELSE ev
    /\ pe' = "evaluated"
    /\ UNCHANGED <<inputs, optimizing, sampling, scope, exc, res, nr_of_exp, produced, cb, sampled>>

NextLoop ==
    \/ EnterBase
    \/ EnterPool
    \/ EnterIpyparallel
    \/ EvaluateExperiments
    \/ WorkerStart
    \/ WorkerDone
    \/ TakeEntry
    \/ CallbackReturn
    \/ LoopEnd
    \/ PerformFinish
    \/ ExitBase
    \/ ExitPool
    \/ ExitPoolJoin
    \/ ExitIpyparallel

SpecLoop == InitLoop /\ [][NextLoop]_vars

(***************************************************************************)
(* A fourth specification, for the samplers taken by themselves: one call  *)
(* of sample_uncertainties with the sampler SAMPLERS[key], followed step   *)
(* by step: generate_samples, the construction of the designs object, the  *)
(* iteration over it.  Real values are rationals <<numerator,              *)
(* denominator>>, as are the explicit levels of an integer parameter; the  *)
(* other values of integer and categorical parameters are integers.  A     *)
(* random draw is a choice from a finite set of values.                    *)
(***************************************************************************)
\* The positions of a draw within its stratum, in halves of the stratum:
\* the lower edge and the middle.
Offsets == {0, 1}

\* -(-num // den)
Ceil(num, den) == -((-num) \div den)

\* stats.uniform(loc, scale).ppf(q), for q = <<numerator, denominator>>.
UniformPpf(loc, scale, q) == <<loc * q[2] + q[1] * scale, q[2]>>

\* stats.randint(low, high).ppf(q): the smallest integer whose cumulative
\* probability reaches q, and low - 1 at q = 0.
RandintPpf(low, high, q) ==
    IF q[1] = 0 THEN low - 1
    ELSE Ceil(q[1] * (high - low) + low * q[2], q[2]) - 1

\* dist(*parms).ppf(q), with parms = (lower_bound, upper_bound -
\* lower_bound) for "uniform" and (lower_bound, upper_bound + 1) for
\* "integer".
Ppf(param, q) ==
    IF param.dist = "uniform"
    THEN UniformPpf(param.lower_bound,
                    param.upper_bound - param.lower_bound, q)
    ELSE RandintPpf(param.lower_bound, param.upper_bound + 1, q)

\* A variant of the strata that spreads their lower edges over [0, 1].
PercToOne(siz) == Linspace(0, 1, siz)

\* perc = np.linspace(0, (siz-1)/siz, siz): the lower edges of the strata.
Perc(siz) ==
    LET grid == Linspace(0, siz - 1, siz)
    IN  [i \in 1..siz |-> <<grid[i][1], grid[i][2] * siz>>]

\* stats.uniform(perc, 1. / siz).rvs(), for one entry p of perc and a draw
\* at offset o: p + (o / 2) / siz.
Rvs(p, siz, o) == <<2 * siz * p[1] + o * p[2], 2 * siz * p[2]>>

\* LHSSampler._lhs: the samples it can return.  np.random.shuffle(perc) is
\* a permutation of the strata.
Lhs(param, siz) ==
    { [i \in 1..siz |-> Ppf(param, Rvs(Perc(siz)[sh[i]], siz, o[i]))] :
        sh \in Permutations(1..siz), o \in [1..siz -> Offsets] }

\* MonteCarloSampler.sample: dist(*params).rvs(size), independent draws.
Mc(param, siz) ==
    IF param.dist = "uniform"
    THEN [1..siz -> {UniformPpf(param.lower_bound,
                                param.upper_bound - param.lower_bound,
                                <<o, 2>>) : o \in Offsets}]
    ELSE [1..siz -> param.lower_bound..param.upper_bound]

\* AbstractSampler.generate_samples for the LHS and the Monte Carlo
\* sampler: the samples of the parameters, in the order of the parameters.
RECURSIVE SampleDicts(_, _, _)
SampleDicts(key, ps, siz) ==
    IF ps = <<>> THEN {<<>>}
    ELSE {<<h>> \o t :
            h \in IF key = MC THEN Mc(Head(ps), siz) ELSE Lhs(Head(ps), siz),
            t \in SampleDicts(key, Tail(ps), siz)}

\* zip(*[sampled_parameters[u.name] for u in parameters])
Zip(ss) ==
    IF ss = <<>> THEN <<>>
    ELSE [j \in 1..Min({Len(ss[i]) : i \in DOMAIN ss}) |->
             [i \in DOMAIN ss |-> ss[i][j]]]

\* A variant that pairs the two sequences element by element.
ZipPairs(xs, ys) ==
    [k \in 1..Min({Len(xs), Len(ys)}) |-> <<xs[k], ys[k]>>]

\* itertools.product(xs, ys): every pair, the last component varying
\* fastest.
ProductPairs(xs, ys) ==
    [k \in 1..(Len(xs) * Len(ys)) |->
        <<xs[((k - 1) \div Len(ys)) + 1], ys[((k - 1) % Len(ys)) + 1]>>]

\* itertools.product(*[samples[u.name] for u in parameters])
RECURSIVE ProductOf(_)
ProductOf(ss) ==
    IF ss = <<>> THEN << <<>> >>
    ELSE LET pairs == ProductPairs(Head(ss), ProductOf(Tail(ss)))
         IN  [k \in DOMAIN pairs |-> <<pairs[k][1]>> \o pairs[k][2]]

\* DefaultDesigns.__init__ and PartialFactorialDesigns.__init__.
DefaultDesigns(ds, parameters, n) ==
    [class |-> "DefaultDesigns", designs |-> ds, parameters |-> parameters,
     n |-> n]

PartialFactorialDesigns(ff_designs, other_designs, parameters, n) ==
    [class |-> "PartialFactorialDesigns", ff_designs |-> ff_designs,
     other_designs |-> other_designs, parameters |-> parameters, n |-> n]

\* param.cat_for_index(index).value: the category at a Python list index.
CatForIndex(param, index) ==
    IF index >= 0 THEN param.categories[index + 1]
    ELSE param.categories[Len(param.categories) + index + 1]

\* Whether the raw values of an integer parameter are rationals: its
\* explicit levels are, its sampled values and grid points are integers.
RationalLevels(param) == param.kind = "int" /\ param.resolution # <<>>

\* int(value): the integer part of the value, rounded towards zero.
IntOf(param, value) ==
    IF RationalLevels(param)
    THEN IF value[1] >= 0 THEN value[1] \div value[2]
         ELSE -((-value[1]) \div value[2])
    ELSE value

\* A variant that takes every raw value that is an index as an index.
CoerceIndexFirst(param, value) ==
    IF param.kind = "cat"
    THEN IF value \in 0..(Len(param.categories) - 1)
         THEN CatForIndex(param, value)
         ELSE value
    ELSE IF param.kind = "int" THEN IntOf(param, value)
    ELSE value

\* design_generator, the value of one parameter: a raw value of a
\* categorical parameter that is no category value is taken as an index;
\* the raw value of an integer parameter goes through int(value).
Coerce(param, value) ==
    IF param.kind = "cat"
    THEN IF value \in Range(param.categories) THEN value
         ELSE CatForIndex(param, value)
    ELSE IF param.kind = "int" THEN IntOf(param, value)
    ELSE value

\* design_generator: a dict from parameter name to value per design.
design_generator(ds, params) ==
    LET names == {params[i].name : i \in DOMAIN params}
        at(nm) == Max({i \in DOMAIN params : params[i].name = nm})
    IN  [j \in DOMAIN ds |->
            [nm \in names |-> Coerce(params[at(nm)], ds[j][at(nm)])]]

\* design = ff_part.copy(); design.update(other_part)
Update(ff_part, other_part) ==
    [nm \in DOMAIN ff_part \cup DOMAIN other_part |->
        IF nm \in DOMAIN other_part THEN other_part[nm] ELSE ff_part[nm]]

\* partial_designs_generator
partial_designs_generator(pairs) ==
    [k \in DOMAIN pairs |-> Update(pairs[k][1], pairs[k][2])]

\* DefaultDesigns.__iter__
DefaultIter(d) == design_generator(d.designs, d.parameters)

\* PartialFactorialDesigns.__iter__
PartialIter(d) ==
    partial_designs_generator(
        ProductPairs(DefaultIter(d.ff_designs), DefaultIter(d.other_designs)))

\* A variant in which an iterator goes on where the one before it stopped.
StartWhereLeft(consumed) == consumed

\* self.designs = list(designs): the designs are kept in a list, and every
\* design_generator(self.designs, ...) reads the list from its beginning,
\* however many designs an earlier iterator has consumed.
StartOfPass(consumed) == 0

\* DefaultDesigns.__iter__, on an object that was iterated to its end.
DefaultIterAgain(d) ==
    LET all == DefaultIter(d)
    IN  SubSeq(all, StartOfPass(Len(all)) + 1, Len(all))

\* PartialFactorialDesigns.__iter__, on an object that was iterated to
\* its end: itertools.product asks both sub-designs for a new iterator.
PartialIterAgain(d) ==
    partial_designs_generator(
        ProductPairs(DefaultIterAgain(d.ff_designs),
                     DefaultIterAgain(d.other_designs)))

\* The real, integer and categorical parameters the samplers are run on.
IntBounds == {b \in (-2..3) \X (-2..3) : b[1] < b[2]}

Thirds == << <<0, 1>>, <<1, 2>>, <<1, 1>> >>

SamplerProfiles ==
    { <<LHS, <<>> >>,
      <<LHS, <<Between(RealParam(1, "uniform", FALSE), 1, 3)>> >>,
      <<LHS, <<RealParam(2, "uniform", FALSE), IntParam(1, 0, 2, FALSE)>> >>,
      <<LHS, <<CatParam(1, <<10, 11, 12>>, FALSE)>> >>,
      <<LHS, <<CatParam(1, <<1, 2, 3>>, FALSE)>> >>,
      <<MC, <<>> >>,
      <<MC, <<RealParam(2, "uniform", FALSE), IntParam(1, 0, 2, FALSE)>> >>,
      <<MC, <<RealParam(1, "uniform", FALSE), RealParam(2, "gauss", FALSE)>> >>,
      <<FF, <<>> >>,
      <<FF, <<RealParam(2, "uniform", FALSE), RealParam(1, "uniform", FALSE)>> >>,
      <<FF, <<CatParam(1, <<10, 11, 12>>, FALSE)>> >>,
      <<FF, <<CatParam(2, <<10>>, FALSE), IntParam(1, 0, 1, FALSE)>> >>,
      <<FF, <<WithResolution(RealParam(1, "uniform", FALSE), Thirds)>> >>,
      <<FF, <<WithResolution(IntParam(1, 0, 9, FALSE),
                            << <<0, 1>>, <<27, 10>>, <<9, 1>> >>)>> >>,
      <<PFF, <<WithResolution(RealParam(2, "uniform", TRUE), Thirds),
               WithResolution(RealParam(1, "uniform", TRUE), Thirds),
               IntParam(3, 0, 4, FALSE)>> >>,
      <<PFF, <<IntParam(2, 0, 1, TRUE), RealParam(1, "uniform", FALSE),
               RealParam(3, "uniform", FALSE)>> >>,
      <<PFF, <<IntParam(1, 0, 2, FALSE)>> >>,
      <<PFF, <<IntParam(1, 0, 1, TRUE)>> >>,
      <<PFF, <<IntParam(1, 0, 1, TRUE), RealParam(2, "gauss", FALSE)>> >> }
    \cup { <<FF, <<IntParam(1, b[1], b[2], FALSE)>> >> : b \in IntBounds }

\* The parameters that are sampled at random.
RandomParameters(key, ps) ==
    IF key = FF THEN <<>>
    ELSE IF key = PFF THEN SelectPff(ps, FALSE)
    ELSE ps

\* The calls within the bounds of the model.
WithinSamples(key, ps, n) == Len(RandomParameters(key, ps)) * n <= MaxSamples

\* The sampling types a partial factorial sampler is constructed with.
Samplings == {"LHS", "MC", "FF"}

InitSamplers ==
    /\ NotOptimizing
    /\ backend = "default"
    /\ models = [collection |-> FALSE, n |-> 1]
    /\ \E p \in SamplerProfiles, n \in 1..MaxSamples :
          /\ WithinSamples(p[1], p[2], n)
          /\ uncertainty_sampling = p[1]
          /\ uncertainties = p[2]
          /\ scenarios = [kind |-> "int", n |-> n]
          /\ pff_sampling \in IF p[1] = PFF THEN Samplings ELSE {"LHS"}
    /\ policies = [kind |-> "int", n |-> 0]
    /\ levers_sampling = LHS /\ levers = <<>>
    /\ scope = "NoScope"
    /\ pe = "notcalled"
    /\ exc = "none"
    /\ res = NoResources
    /\ nr_of_exp = 0
    /\ produced = 0
    /\ cb = NoCallback
    /\ ev = NoEvaluation
    /\ sampled = <<>>
    /\ step = "start"
    /\ sampler = NoSampler
    /\ samples = <<>>
    /\ designs = NoDesigns
    /\ iterated = <<>>
    /\ reiterated = <<>>

\* FullFactorialSampler.generate_samples, for sorted parameters.
FFSamples(ps, size) == [i \in DOMAIN ps |-> FFSample(ps[i], size)]

\* A variant that falls back on the default sampling type.
PartialFactorialSamplerOrDefault(sampling_type) ==
    [class |-> "PartialFactorialSampler",
     sampler |-> IF sampling_type = "MC" THEN "MonteCarloSampler" ELSE "LHSSampler",
     ff |-> "FullFactorialSampler"]

\* PartialFactorialSampler.__init__: the attributes of the new object, or
\* no object when the constructor raises ValueError.
PartialFactorialSampler(sampling_type) ==
    IF sampling_type = "LHS"
    THEN [class |-> "PartialFactorialSampler", sampler |-> "LHSSampler",
          ff |-> "FullFactorialSampler"]
    ELSE IF sampling_type = "MC"
    THEN [class |-> "PartialFactorialSampler",
          sampler |-> "MonteCarloSampler", ff |-> "FullFactorialSampler"]
    ELSE NoSampler

\* The classes of SAMPLERS.
SamplerClass(key) ==
    IF key = LHS THEN "LHSSampler"
    ELSE IF key = MC THEN "MonteCarloSampler"
    ELSE IF key = FF THEN "FullFactorialSampler"
    ELSE "PartialFactorialSampler"

\* The sampler is constructed: SAMPLERS[key](), the partial factorial
\* sampler with a sampling type.
NewSampler ==
    /\ step = "start"
    /\ LET new == IF uncertainty_sampling = PFF
                  THEN PartialFactorialSampler(pff_sampling)
                  ELSE [class |-> SamplerClass(uncertainty_sampling)]
       IN  /\ sampler' = new
           /\ step' = IF new = NoSampler THEN "invalid" ELSE "constructed"
           /\ exc' = IF new = NoSampler THEN "ValueError" ELSE "none"
    /\ UNCHANGED <<inputs, optimizing, scope, pe, res, nr_of_exp, produced, cb, ev,
                   sampled, pff_sampling, samples, designs, iterated,
                   reiterated>>

\* generate_samples of the sampler: the dict of the samples, or KeyError
\* at the first parameter whose distribution the sampler does not know
\* (the parameters before it have been sampled by then).  The partial
\* factorial sampler first runs the full factorial sampler on the
\* parameters with pff set, then its LHS sampler on the others.
GenerateSamples ==
    /\ step = "constructed"
    /\ LET key == uncertainty_sampling
           drawn == IF sampler.class = "PartialFactorialSampler"
                       /\ sampler.sampler = "MonteCarloSampler"
                    THEN MC ELSE key
           n == scenarios.n
           ps == SortByName(RandomParameters(key, uncertainties))
           bad == FirstUnknown(ps)
           known == IF bad = 0 THEN ps ELSE SubSeq(ps, 1, bad - 1)
           ff == FFSamples(SortByName(SelectPff(uncertainties, TRUE)), n)
       IN  /\ \E d \in SampleDicts(drawn, known, n) :
                samples' = IF key = FF
                           THEN FFSamples(SortByName(uncertainties), n)
                           ELSE IF key = PFF THEN [ff |-> ff, other |-> d]
                           ELSE d
           /\ step' = IF bad = 0 THEN "sampled" ELSE "raised"
           /\ exc' = IF bad = 0 THEN "none" ELSE "KeyError"
    /\ UNCHANGED <<inputs, optimizing, scope, pe, res, nr_of_exp, produced, cb, ev,
                   sampled, sampler, pff_sampling, designs, iterated,
                   reiterated>>

\* The designs object of generate_designs, built from the samples.
GenerateDesigns ==
    /\ step = "sampled"
    /\ LET key == uncertainty_sampling
           n == scenarios.n
           ps == SortByName(uncertainties)
           ff_params == SortByName(SelectPff(uncertainties, TRUE))
           other_params == SortByName(SelectPff(uncertainties, FALSE))
       IN  designs' =
             IF key = FF
             THEN DefaultDesigns(ProductOf(samples), ps,
                                 determine_nr_of_designs(samples))
             ELSE IF key = PFF
             THEN LET ff_designs ==
                        DefaultDesigns(ProductOf(samples.ff), ff_params,
                                       determine_nr_of_designs(samples.ff))
                      other_designs ==
                        DefaultDesigns(Zip(samples.other), other_params, n)
                  IN  PartialFactorialDesigns(ff_designs, other_designs,
                                              uncertainties,
                                              other_designs.n * ff_designs.n)
             ELSE DefaultDesigns(Zip(samples), ps, n)
    /\ step' = "designed"
    /\ UNCHANGED <<inputs, optimizing, scope, pe, exc, res, nr_of_exp, produced, cb, ev,
                   sampled, sampler, pff_sampling, samples, iterated,
                   reiterated>>

\* n_scenarios = scenarios.n: the count is read from the designs object.
ReadN ==
    /\ step = "designed"
    /\ nr_of_exp' = designs.n
    /\ step' = "counted"
    /\ UNCHANGED <<inputs, optimizing, scope, pe, exc, res, produced, cb, ev,
                   sampled, sampler, pff_sampling, samples, designs,
                   iterated, reiterated>>

\* "for design in designs": the designs object is iterated to its end.
Iterate ==
    /\ step = "counted"
    /\ iterated' = IF designs.class = "PartialFactorialDesigns"
                   THEN PartialIter(designs)
                   ELSE DefaultIter(designs)
    /\ step' = "iterated"
    /\ UNCHANGED <<inputs, optimizing, scope, pe, exc, res, nr_of_exp, produced, cb, ev,
                   sampled, sampler, pff_sampling, samples, designs,
                   reiterated>>

\* "for design in designs", once more on the same object.
IterateAgain ==
    /\ step = "iterated"
    /\ reiterated' = IF designs.class = "PartialFactorialDesigns"
                     THEN PartialIterAgain(designs)
                     ELSE DefaultIterAgain(designs)
    /\ step' = "reiterated"
    /\ UNCHANGED <<inputs, optimizing, scope, pe, exc, res, nr_of_exp, produced, cb, ev,
                   sampled, sampler, pff_sampling, samples, designs,
                   iterated>>

NextSamplers ==
    \/ NewSampler
    \/ GenerateSamples
    \/ GenerateDesigns
    \/ ReadN
    \/ Iterate
    \/ IterateAgain

SpecSamplers == InitSamplers /\ [][NextSamplers]_vars

(***************************************************************************)
(* A fifth specification, for evaluate_all: one call on an evaluator with  *)
(* one model and one parameter to search over.  A job is its solution's    *)
(* variables (the value of the parameter) and its objectives, empty until  *)
(* the solution is evaluated.                                              *)
(***************************************************************************)
MaxJobs == 3

MaxValue == 2

\* The jobs that evaluate_all is called with.
JobLists ==
    UNION {[1..k -> [variables : 1..MaxValue, objectives : {<<>>}]] :
              k \in 0..MaxJobs}

InitEvaluateAll ==
    /\ backend = "sequential"
    /\ models = [collection |-> FALSE, n |-> 1]
    /\ scenarios = [kind |-> "int", n |-> 0]
    /\ policies = [kind |-> "int", n |-> 0]
    /\ uncertainty_sampling = LHS /\ uncertainties = <<>>
    /\ levers_sampling = LHS /\ levers = <<>>
    /\ scope = "NoScope"
    /\ pe = "notcalled"
    /\ exc = "none"
    /\ res = NoResources
    /\ nr_of_exp = 0
    /\ produced = 0
    /\ cb = NoCallback
    /\ ev = NoEvaluation
    /\ sampled = <<>>
    /\ NotSampling
    /\ searchover \in {"levers", "uncertainties"}
    /\ jobs \in JobLists
    /\ experiments = <<>>
    /\ ea_step = "called"
    /\ row = 0

\* str(i), the name of the policy made for job i.
PolicyName(i) == ToString(i)

\* int(job_id): defined for the decimal numerals, ValueError otherwise.
CanParse(job_id) == \E k \in 0..MaxJobs : ToString(k) = job_id

ParseInt(job_id) == CHOOSE k \in 0..MaxJobs : ToString(k) = job_id

\* The outcomes of the model for one scenario and one policy: they tell
\* the experiment they come from.
RunModel(scenario, policy) == <<scenario, policy>>

\* Scenario("None", **{}) and Policy("None", **{}).
ImplicitDesign == [name |-> "None", value |-> 0]

\* The loop over the jobs: Policy(name=str(i), **variables) per job for
\* searchover = 'levers', Scenario(**variables) otherwise.
JobPolicies(so, js) ==
    IF so = "levers"
    THEN [i \in DOMAIN js |->
             [name |-> PolicyName(i - 1), value |-> js[i].variables]]
    ELSE <<>>

JobScenarios(so, js) ==
    IF so = "levers" THEN <<>>
    ELSE [i \in DOMAIN js |-> [name |-> "None", value |-> js[i].variables]]

\* "if not policies: policies = 0", and the same for the scenarios.
ListOrZero(items) ==
    IF items = <<>> THEN [kind |-> "int", n |-> 0]
    ELSE [kind |-> "coll", n |-> Len(items)]

BuildDesigns ==
    /\ ea_step = "called"
    /\ policies' = ListOrZero(JobPolicies(searchover, jobs))
    /\ scenarios' = ListOrZero(JobScenarios(searchover, jobs))
    /\ ea_step' = "built"
    /\ UNCHANGED <<backend, models, uncertainty_sampling, levers_sampling,
                   uncertainties, levers, sampling, scope, pe, exc, res,
                   nr_of_exp, produced, cb, ev, sampled, searchover, jobs,
                   experiments, row>>

\* The experiments and outcomes that perform_experiments returns, one row
\* per experiment: the name of its policy and its outcomes.
Rows(sc, po) ==
    LET sc_list == IF sc = <<>> THEN <<ImplicitDesign>> ELSE sc
        po_list == IF po = <<>> THEN <<ImplicitDesign>> ELSE po
        pairs == ProductPairs(sc_list, po_list)
    IN  [k \in DOMAIN pairs |->
            [policy |-> pairs[k][2].name,
             outcome |-> RunModel(pairs[k][1].value, pairs[k][2].value)]]

\* experiments, outcomes = perform_experiments(self._msis, scenarios,
\* policies, evaluator=self)
EvaluateAllPerform ==
    /\ ea_step = "built"
    /\ IF NoExperimentsPossible(scenarios, policies)
       THEN /\ ea_step' = "raised"
            /\ exc' = "EMAError"
            /\ UNCHANGED experiments
       ELSE /\ ea_step' = "performed"
            /\ experiments' = Rows(JobScenarios(searchover, jobs),
                                   JobPolicies(searchover, jobs))
            /\ UNCHANGED exc
    /\ UNCHANGED <<inputs, sampling, scope, pe, res, nr_of_exp, produced,
                   cb, ev, sampled, searchover, jobs, row>>

\* "for i, job_id in enumerate(experiments['policy'])": the job at
\* int(job_id) is evaluated on the outcomes of row i.
MapBack ==
    /\ ea_step = "performed"
    /\ row < Len(experiments)
    /\ LET job_id == experiments[row + 1].policy
       IN  IF ~CanParse(job_id)
           THEN /\ ea_step' = "raised"
                /\ exc' = "ValueError"
                /\ UNCHANGED <<jobs, row>>
           ELSE IF ParseInt(job_id) >= Len(jobs)
           THEN /\ ea_step' = "raised"
                /\ exc' = "IndexError"
                /\ UNCHANGED <<jobs, row>>
           ELSE /\ jobs' = [jobs EXCEPT ![ParseInt(job_id) + 1].objectives =
                                            experiments[row + 1].outcome]
                /\ row' = row + 1
                /\ UNCHANGED <<ea_step, exc>>
    /\ UNCHANGED <<inputs, sampling, scope, pe, res, nr_of_exp, produced,
                   cb, ev, sampled, searchover, experiments>>

\* return jobs
ReturnJobs ==
    /\ ea_step = "performed"
    /\ row = Len(experiments)
    /\ ea_step' = "returned"
    /\ UNCHANGED <<inputs, sampling, scope, pe, exc, res, nr_of_exp,
                   produced, cb, ev, sampled, searchover, jobs, experiments,
                   row>>

NextEvaluateAll ==
    \/ BuildDesigns
    \/ EvaluateAllPerform
    \/ MapBack
    \/ ReturnJobs

SpecEvaluateAll == InitEvaluateAll /\ [][NextEvaluateAll]_vars

(***************************************************************************)
(* Properties.                                                             *)
(***************************************************************************)
Ids == 0..(produced - 1)

\* C1: for every backend, no experiment id is ever passed to the callback
\* twice, and when evaluate_experiments has returned normally (and so
\* whenever perform_experiments returns results) the callback was invoked
\* exactly once for each produced experiment; otherwise the run ends with
\* an exception that reaches the caller.
C1_ExactlyOnceOrFailed ==
    /\ DOMAIN cb.calls \subseteq Ids
    /\ \A id \in Ids : Calls(id) <= 1
    /\ pe \in {"evaluated", "returned"} => \A id \in Ids : Calls(id) = 1
    /\ pe = "raised" => exc # "none"

C1_Witness ==
    /\ backend = "ipyparallel"
    /\ pe = "returned"
    /\ produced >= 3
    /\ \A id \in Ids : Calls(id) = 1

\* C2: once evaluate_experiments has returned, a callback count that
\* differs from the expected total makes perform_experiments raise EMAError
\* instead of returning results.
C2_CountMismatchIsFatal ==
    [][(pe = "evaluated" /\ cb.i # nr_of_exp)
          => (pe' = "raised" /\ exc' = "EMAError")]_vars

C2_Witness ==
    /\ pe = "evaluated"
    /\ cb.i # nr_of_exp
    /\ nr_of_exp >= 2

\* C3: whenever perform_experiments returns results, every experiment id
\* in [0, total) has been written, by exactly one callback invocation; a
\* callback sequence with a duplicate id never ends in returned results.
C3_ReturnedMeansEachIdOnce ==
    pe = "returned" =>
        /\ cb.rows = 0..(nr_of_exp - 1)
        /\ \A id \in 0..(nr_of_exp - 1) : Calls(id) = 1

C3_Witness ==
    /\ pe = "raised"
    /\ exc = "DuplicateError"
    /\ nr_of_exp >= 2
    /\ \E id \in 0..(nr_of_exp - 1) : Calls(id) = 2
    /\ \E id \in 0..(nr_of_exp - 1) : Calls(id) = 0

\* C4: with both scenarios and policies zero or empty, perform_experiments
\* raises EMAError at once: no sampler has run, no callback exists and
\* evaluate_experiments was not called.
C4_ZeroFailsFast ==
    (scenarios.n = 0 /\ policies.n = 0 /\ pe # "notcalled") =>
        /\ pe = "raised"
        /\ exc = "EMAError"
        /\ sampled = <<>>
        /\ ~cb.created
        /\ ev.called = 0

C4_Witness ==
    /\ scenarios = [kind |-> "coll", n |-> 0]
    /\ policies = [kind |-> "int", n |-> 0]
    /\ pe = "raised"

\* The count an axis contributes, read off its argument.
ExpectedAxis(arg, key, params) ==
    IF arg.n = 0 THEN 1
    ELSE IF arg.kind = "coll" THEN arg.n
    ELSE generate_designs(key, params, arg.n).n

\* C5: the expected total is n_models * n_scenarios * n_policies, where an
\* axis given as 0 counts one implicit element, a sampled axis the declared
\* design count of its sampler and a collection its length; the table has
\* that many rows and returned results cover the ids 0 .. total - 1.
C5_ExpectedTotal ==
    cb.created =>
        /\ nr_of_exp = (IF models.collection THEN models.n ELSE 1)
                       * ExpectedAxis(scenarios, uncertainty_sampling, uncertainties)
                       * ExpectedAxis(policies, levers_sampling, levers)
        /\ cb.size = nr_of_exp
        /\ pe = "returned" => cb.rows = 0..(nr_of_exp - 1)

C5_Witness ==
    /\ n_models(models) = 1
    /\ scenarios = [kind |-> "int", n |-> 3]
    /\ policies = [kind |-> "int", n |-> 2]
    /\ uncertainty_sampling = LHS
    /\ levers_sampling = LHS
    /\ pe = "returned"
    /\ nr_of_exp = 6
    /\ cb.size = 6
    /\ cb.rows = 0..5

\* C6: on exit from the process-pool evaluator's scope, an exception makes
\* the exit terminate the pool at once, aborting the outstanding jobs and
\* never waiting for them; without an exception the pool is first closed to
\* new submissions and the exit returns only after join, when no job is
\* outstanding.
C6_PoolExit ==
    backend = "pool" =>
        /\ scope = "Draining" =>
              exc = "none" /\ res.pool_log = <<"Pool", "close">>
        /\ scope = "Closed" =>
              IF exc # "none"
              THEN res.pool_log = <<"Pool", "terminate">> /\ ev.inflight = {}
              ELSE /\ res.pool_log = <<"Pool", "close", "join">>
                   /\ Outstanding = {}
                   /\ ev.aborted = {}

C6_Witness ==
    /\ backend = "pool"
    /\ scope = "Closed"
    /\ exc = "ExperimentError"
    /\ res.pool = "terminated"
    /\ Cardinality(ev.aborted) >= 2

\* C7: every resource acquired on entry to an evaluator's scope is released
\* on exit: in no Closed state is a pool, a log queue reader or a log
\* watcher still running, or are initialized engines left without cleanup.
C7_ReleasedOnExit ==
    scope = "Closed" =>
        /\ res.pool \notin {"running", "closed"}
        /\ res.reader # "started"
        /\ res.watcher # "running"
        /\ res.cleaned = res.initialized

\* C8: when acquisition fails part-way through __enter__, the failure
\* reaches the caller and what had been acquired before it is cleaned up.
C8_PartialAcquisitionCleanedUp ==
    scope = "EnterFailed" =>
        /\ exc # "none"
        /\ res.reader # "started"
        /\ ~res.loggers
        /\ res.cleaned = res.initialized

\* C9: a configuration error of the run (zero experiments, a sampling key
\* missing from SAMPLERS, an unknown distribution name) is raised while no
\* evaluator resource has been acquired.
ConfigurationError == pe = "raised" /\ ev.called = 0

C9_ConfigErrorBeforeResources ==
    ConfigurationError =>
        /\ res.pool = "none"
        /\ res.reader = "none"
        /\ res.initialized = 0
        /\ res.watcher = "none"

\* C10: under the sequential backend a failing experiment k aborts the
\* run: the error leaves perform_experiments, no experiment after k is run,
\* the callback is invoked for none of k, k+1, ... and no results are
\* returned.
C10_SequentialFailureIsFatal ==
    Sequential =>
        \A k \in ev.failed :
            /\ pe = "raised"
            /\ exc = "ExperimentError"
            /\ \A j \in Ids : j >= k => Calls(j) = 0
            /\ \A j \in Ids : j > k => j \notin ev.ran

C10_Witness ==
    /\ backend = "sequential"
    /\ scope = "Closed"
    /\ exc = "ExperimentError"
    /\ 1 \in ev.failed
    /\ produced >= 3
    /\ Calls(0) = 1

\* C11: when an experiment fails under the process-pool or the distributed
\* backend, the run ends with an error that reaches the caller, and that
\* error names the id of every experiment that failed.
C11_FailureNamesExperiment ==
    (backend \in {"pool", "ipyparallel"} /\ ev.failed # {}) =>
        /\ pe = "raised"
        /\ exc # "none"
        /\ ev.failed \subseteq ErrorIds(exc, ev.failed)

\* C12: whenever a sequential evaluate_experiments has ended, by returning
\* or by an exception of an experiment or of the callback, runner.cleanup
\* has been called exactly once and the working directory saved at the
\* start has been restored.
C12_CleanupOnEveryEnd ==
    (Sequential /\ ev.called = 1 /\ pe \in {"evaluated", "returned", "raised"}) =>
        /\ ev.cleanup = 1
        /\ ev.restored

\* C13: for every backend, at no time are two callback invocations of a
\* run in progress: whatever the order in which the workers finish, at
\* most one experiment's callback is executing, and a callback only starts
\* on an entry that the loop of the calling thread has taken.
C13_CallbacksSerialized ==
    /\ Cardinality(ev.active) <= 1
    /\ ev.active \subseteq Range(ev.yielded)

C13_Witness ==
    /\ backend = "pool"
    /\ Cardinality(ev.active) = 1
    /\ Len(Pending(ev)) >= 1
    /\ ev.inflight # {}

IsPrefix(s, t) == Len(s) <= Len(t) /\ \A i \in DOMAIN s : s[i] = t[i]

\* C14: under the distributed backend every experiment is submitted before
\* the first result is collected, the entries reach the callback in the
\* order in which the experiments finished (an experiment that has
\* finished is next in line whatever earlier-submitted experiment is still
\* running), and when evaluate_experiments returns every submitted
\* experiment has been passed to the callback exactly once.
C14_ArrivalOrder ==
    backend = "ipyparallel" =>
        /\ pe = "evaluating" => ev.next = produced
        /\ IsPrefix(ev.yielded, ev.arrived)
        /\ (pe = "evaluating" /\ Pending(ev) # <<>>)
              => InArrivalOrder(ev) = {Head(Pending(ev))}
        /\ pe \in {"evaluated", "returned"} =>
              /\ Range(ev.yielded) = 0..(produced - 1)
              /\ \A id \in 0..(produced - 1) : Calls(id) = 1

C14_Witness ==
    /\ backend = "ipyparallel"
    /\ pe = "evaluating"
    /\ 0 \in ev.inflight
    /\ ev.yielded = <<1>>
    /\ Calls(1) = 1

\* C15: under the distributed backend the engines are initialized exactly
\* once per scope, on entry: whenever the scope is active or has been
\* closed, and so whenever an experiment has been submitted, the engines
\* have been initialized once, however many experiments have run and
\* however often evaluate_experiments has been called.
C15_InitializedOncePerScope ==
    backend = "ipyparallel" =>
        /\ scope \in {"Active", "Closed"} => res.initialized = 1
        /\ ev.called > 0 => res.initialized = 1
        /\ res.initialized <= 1

C15_Witness ==
    /\ backend = "ipyparallel"
    /\ scope = "Active"
    /\ ev.called = 2
    /\ Cardinality(ev.ran) >= 2
    /\ pe = "returned"
    /\ res.initialized = 1

\* C16: for every parameter list, iterating the designs object of
\* generate_designs(parameters, n) yields n designs for the Latin
\* Hypercube and the Monte Carlo sampler, and the product of the
\* parameters' numbers of levels for the full factorial sampler.
C16_DesignCount ==
    step = "iterated" =>
        /\ uncertainty_sampling \in {LHS, MC} => Len(iterated) = scenarios.n
        /\ uncertainty_sampling = FF =>
              Len(iterated) = Product([i \in DOMAIN samples |-> Len(samples[i])])

\* The stratum of a sample v of a uniform parameter, mapped back to
\* probability space: floor(n * (v - lower_bound) / width).
Stratum(param, v, n) ==
    (n * (v[1] - param.lower_bound * v[2]))
        \div (v[2] * (param.upper_bound - param.lower_bound))

\* The samples that the Latin Hypercube sampler has drawn, per parameter.
LhsSampled ==
    IF uncertainty_sampling = PFF THEN samples.other ELSE samples

LhsParameters == SortByName(RandomParameters(uncertainty_sampling, uncertainties))

\* C17: a Latin Hypercube sample of size n has exactly one sample in each
\* of the n strata [i/n, (i+1)/n) of probability space: for a uniform
\* parameter the strata of the n samples are a permutation of 0 .. n-1.
C17_OnePerStratum ==
    (/\ uncertainty_sampling \in {LHS, PFF}
     /\ pff_sampling = "LHS"
     /\ step \in {"sampled", "designed", "iterated"}) =>
        \A i \in DOMAIN LhsSampled :
            LhsParameters[i].dist = "uniform" =>
                LET n == scenarios.n
                    strata == [j \in 1..n |->
                                 Stratum(LhsParameters[i], LhsSampled[i][j], n)]
                IN  /\ Len(LhsSampled[i]) = n
                    /\ Range(strata) = 0..(n - 1)
                    /\ \A j, k \in 1..n : strata[j] = strata[k] => j = k

C17_Witness ==
    /\ uncertainty_sampling = LHS
    /\ uncertainties = <<Between(RealParam(1, "uniform", FALSE), 1, 3)>>
    /\ scenarios.n = 3
    /\ step = "sampled"
    /\ Stratum(uncertainties[1], samples[1][1], 3) = 2
    /\ 3 * samples[1][1][1] = 7 * samples[1][1][2]
    /\ Stratum(uncertainties[1], samples[1][2], 3) = 0
    /\ Stratum(uncertainties[1], samples[1][3], 3) = 1
    /\ samples[1][3][1] = 2 * samples[1][3][2]

FFParameters == SortByName(uncertainties)

Rounded(k, q) ==
    /\ 2 * (k * q[2] - q[1]) <= q[2]
    /\ 2 * (q[1] - k * q[2]) <= q[2]

\* C19: the full factorial sample of an integer parameter with bounds
\* [lo, hi] and size n is the n equally spaced grid points rounded to
\* integers, without duplicates and sorted: strictly increasing integers
\* of lo .. hi, with lo and hi among them for n >= 2, and at most
\* min(n, hi - lo + 1) of them.
C19_FFInteger ==
    (uncertainty_sampling = FF /\ step \in {"sampled", "designed", "iterated"}) =>
        \A i \in DOMAIN samples :
            (FFParameters[i].kind = "int" /\ FFParameters[i].resolution = <<>>) =>
                LET s == samples[i]
                    n == scenarios.n
                    lo == FFParameters[i].lower_bound
                    hi == FFParameters[i].upper_bound
                    grid == Linspace(lo, hi, n)
                IN  /\ \A j \in DOMAIN s : s[j] \in lo..hi
                    /\ \A j \in 1..(Len(s) - 1) : s[j] < s[j + 1]
                    /\ n >= 2 => (s[1] = lo /\ s[Len(s)] = hi)
                    /\ Len(s) <= Min({n, hi - lo + 1})
                    /\ \A j \in DOMAIN s : \E g \in DOMAIN grid : Rounded(s[j], grid[g])
                    /\ \A g \in DOMAIN grid : \E j \in DOMAIN s : Rounded(s[j], grid[g])

C19_Witness ==
    /\ uncertainty_sampling = FF
    /\ uncertainties = <<IntParam(1, -2, 0, FALSE)>>
    /\ scenarios.n = 5
    /\ step = "sampled"
    /\ samples[1] = <<-2, -1, 0>>

\* A factorial subset of two parameters with three levels each.
TwoFactorsOfThreeLevels ==
    LET ff_params == SelectPff(uncertainties, TRUE)
    IN  /\ Len(ff_params) = 2
        /\ \A i \in DOMAIN ff_params : Len(ff_params[i].resolution) = 3

\* The partial factorial designs object declares the product of the counts
\* of its two sub-designs, holds the sub-designs and no joint list, and
\* its iteration yields the pairs of their Cartesian product, merged.
DeclaresAndYieldsProduct ==
    /\ designs.n = designs.ff_designs.n * designs.other_designs.n
    /\ DOMAIN designs =
          {"class", "ff_designs", "other_designs", "parameters", "n"}
    /\ step = "designed" => iterated = <<>>
    /\ step = "iterated" =>
          LET ff == DefaultIter(designs.ff_designs)
              other == DefaultIter(designs.other_designs)
          IN  /\ Len(iterated) = Len(ff) * Len(other)
              /\ \A i \in DOMAIN ff, j \in DOMAIN other :
                    iterated[(i - 1) * Len(other) + j] = Update(ff[i], other[j])

\* C20, as stated: the partial factorial count is the product of the two
\* sub-design counts, every design is a pair of the Cartesian product
\* formed at iteration time, and a factorial subset of two parameters with
\* three levels each combined with a Latin Hypercube subset of n = 5
\* gives 3 * 5 = 15 designs.
C20_AsStated ==
    (uncertainty_sampling = PFF /\ step \in {"designed", "iterated"}) =>
        /\ DeclaresAndYieldsProduct
        /\ (TwoFactorsOfThreeLevels /\ scenarios.n = 5) =>
              /\ designs.n = 3 * 5
              /\ step = "iterated" => Len(iterated) = 3 * 5

\* C20, amended: the partial factorial count is the product of the two
\* sub-design counts, every design is a pair of the Cartesian product
\* formed at iteration time, and a factorial subset of two parameters with
\* three levels each has 3 * 3 = 9 designs, so that with a Latin
\* Hypercube subset of n = 5 there are 9 * 5 = 45 designs.
C20_ProductOfSubDesigns ==
    (uncertainty_sampling = PFF /\ step \in {"designed", "iterated"}) =>
        /\ DeclaresAndYieldsProduct
        /\ TwoFactorsOfThreeLevels =>
              /\ designs.ff_designs.n = 3 * 3
              /\ designs.n = 9 * scenarios.n
              /\ step = "iterated" => Len(iterated) = 9 * scenarios.n

C20_Witness ==
    /\ uncertainty_sampling = PFF
    /\ TwoFactorsOfThreeLevels
    /\ scenarios.n = 5
    /\ step = "iterated"
    /\ designs.n = 45
    /\ Len(iterated) = 45
    /\ DOMAIN iterated[45] = {1, 2, 3}

\* The sampling that generate_samples has executed: the parameters whose
\* samples were drawn.
SampledSomething ==
    IF uncertainty_sampling = PFF
    THEN samples.ff # <<>> \/ samples.other # <<>>
    ELSE samples # <<>>

\* C21: when a parameter passed to generate_designs names an unknown
\* distribution, the error is raised before any sampling executes: no
\* parameter, the ones sorted before the offending one included, has been
\* sampled when the error is raised.
C21_NoSamplingBeforeError == step = "raised" => ~SampledSomething

\* The raw value of an integer parameter as a rational.
AsRational(param, value) ==
    IF RationalLevels(param) THEN value ELSE <<value, 1>>

\* C22: the design assembler coerces the raw value of an integer parameter
\* by rounding to the nearest integer (a raw value 2.7 becomes 3), for
\* every raw value that a sampler produces.
C22_IntegerRounded ==
    (step = "iterated" /\ designs.class = "DefaultDesigns") =>
        \A j \in DOMAIN iterated : \A i \in DOMAIN designs.parameters :
            LET param == designs.parameters[i]
            IN  param.kind = "int" =>
                    Rounded(iterated[j][param.name],
                            AsRational(param, designs.designs[j][i]))

\* C23: in every design of the design assembler the value of a
\* categorical parameter is a declared category value: a raw value equal
\* to a declared category value is kept, any other raw value is an index
\* into the category list in insertion order; and a design given back to
\* the assembler keeps its categories by name, they are not read as
\* indices again.
C23_CategoricalByName ==
    (step = "iterated" /\ designs.class = "DefaultDesigns") =>
        \A j \in DOMAIN iterated : \A i \in DOMAIN designs.parameters :
            LET param == designs.parameters[i]
                cats == param.categories
                raw == designs.designs[j][i]
                value == iterated[j][param.name]
            IN  param.kind = "cat" =>
                    /\ \E k \in DOMAIN cats : value = cats[k]
                    /\ (\E k \in DOMAIN cats : raw = cats[k]) => value = raw
                    /\ (\A k \in DOMAIN cats : raw # cats[k]) =>
                          value = cats[IF raw >= 0 THEN raw + 1
                                       ELSE Len(cats) + raw + 1]
                    /\ Coerce(param, value) = value

C23_Witness ==
    /\ uncertainty_sampling = LHS
    /\ uncertainties = <<CatParam(1, <<1, 2, 3>>, FALSE)>>
    /\ scenarios.n = 3
    /\ step = "iterated"
    /\ designs.designs = << <<1>>, <<0>>, <<2>> >>
    /\ iterated[1][1] = 1
    /\ iterated[2][1] = 1
    /\ iterated[3][1] = 2

C25_Constructor ==
    (uncertainty_sampling = PFF /\ step # "start") =>
        /\ pff_sampling \notin {"LHS", "MC"} =>
              /\ step = "invalid"
              /\ exc = "ValueError"
              /\ sampler = NoSampler
              /\ samples = <<>>
        /\ pff_sampling \in {"LHS", "MC"} =>
              /\ step # "invalid"
              /\ exc # "ValueError"
              /\ DOMAIN sampler = {"class", "sampler", "ff"}
              /\ sampler.sampler = IF pff_sampling = "LHS" THEN "LHSSampler"
                                   ELSE "MonteCarloSampler"
              /\ sampler.ff = "FullFactorialSampler"

C25_Witness ==
    /\ uncertainty_sampling = PFF
    /\ pff_sampling = "FF"
    /\ step = "invalid"
    /\ exc = "ValueError"
    /\ sampler = NoSampler

\* The parameter names of a designs object, in the order it holds them.
ParamNames(d) == [i \in DOMAIN d.parameters |-> d.parameters[i].name]

\* C26: for every sampler, the partial factorial one included, the
\* parameters attached to the designs object of generate_designs are
\* sorted by name, and every design it yields assigns each parameter name
\* exactly once.
C26_ParametersSorted ==
    step \in {"designed", "counted", "iterated", "reiterated"} =>
        /\ \A i \in 1..(Len(ParamNames(designs)) - 1) :
              ParamNames(designs)[i] < ParamNames(designs)[i + 1]
        /\ \A j \in DOMAIN iterated :
              DOMAIN iterated[j] = Range(ParamNames(designs))

\* C27: under the sequential backend the callback of experiment i is
\* invoked after experiment i has run and before experiment i + 1 is
\* started: the callbacks come in the order of the ids, and at most one
\* experiment is in flight, with no callback executing meanwhile.
C27_SequentialInline ==
    (backend = "sequential" /\ pe # "notcalled") =>
        /\ Cardinality(ev.inflight) + Cardinality(ev.active) <= 1
        /\ ev.ran = 0..(ev.next - 1)
        /\ ev.yielded = [i \in 1..Len(ev.yielded) |-> i - 1]
        /\ \A id \in ev.inflight :
              /\ id = ev.next - 1
              /\ Len(ev.yielded) = id
              /\ \A j \in 0..(id - 1) : Calls(j) = 1
        /\ \A id \in ev.active :
              /\ id = ev.next - 1
              /\ id \in Range(ev.arrived)

C27_Witness ==
    /\ backend = "sequential"
    /\ pe = "evaluating"
    /\ ev.inflight = {2}
    /\ ev.yielded = <<0, 1>>
    /\ Calls(0) = 1
    /\ Calls(1) = 1

\* C28: no evaluator's __exit__ suppresses an exception raised inside its
\* scope: for the sequential, the pool and the ipyparallel evaluator the
\* exception that the scope's body raised is still raised when __exit__
\* has run and the scope is closed.
C28_ExitNeverSuppresses ==
    (scope = "Closed" /\ pe = "raised") =>
        /\ exc # "none"
        /\ backend = "pool" => res.pool = "terminated"
        /\ backend = "ipyparallel" => res.watcher = "stopped"

C28_Witness ==
    /\ backend = "ipyparallel"
    /\ scope = "Closed"
    /\ pe = "raised"
    /\ exc = "EMAError"
    /\ res.watcher = "stopped"

\* C29: for the designs object of every sampler the declared count n
\* equals the number of designs that iterating it yields, also for an
\* empty parameter list and, for the partial factorial sampler, for an
\* empty factorial or an empty sampled subset.
C29_DeclaredEqualsYielded ==
    step \in {"iterated", "reiterated"} => Len(iterated) = designs.n

\* The outcomes of the experiment that was built from the variables of a
\* job.
OwnOutcome(job) ==
    IF searchover = "levers" THEN RunModel(0, job.variables)
    ELSE RunModel(job.variables, 0)

\* C30: evaluate_all returns the jobs with the solution of every job
\* evaluated on the outcomes of the experiment built from that job's own
\* variables, for searchover = 'levers' and for searchover =
\* 'uncertainties', for one job or more.
C30_JobsEvaluated ==
    (ea_step \in {"returned", "raised"} /\ jobs # <<>>) =>
        /\ ea_step = "returned"
        /\ \A i \in DOMAIN jobs : jobs[i].objectives = OwnOutcome(jobs[i])

====
